---- MODULE Spec2Model ----
(***************************************************************************)
(* The workbook layout / grading engine of exam-builder (src/main.py):     *)
(* ExcelLayoutEngine and build_professional_workbook.                      *)
(*                                                                         *)
(* Text is a sequence of one-character strings, so that formatting,        *)
(* joining, splitting and parsing are computed and not assumed.  Numbers   *)
(* are decimal fixed point with three places: the integer n stands for     *)
(* n/1000 (100 is 100000, the tolerance 0.02 is 20, 0.01 is 10).           *)
(* An Optional value is <<>> (None) or <<x>>.                              *)
(***************************************************************************)
EXTENDS Integers, Sequences, FiniteSets, TLC

VARIABLES
    questions,      \* build_professional_workbook's argument
    pc,             \* "layout" while the loop runs, "done" once saved
    qi,             \* position of the for loop in questions (1-based)
    phase,          \* what the loop body does next: "question", "table", "subs"
    sub_idx,        \* position of the inner loop in question.subquestions
    question_num,   \* build_professional_workbook's counter
    current_row,    \* ExcelLayoutEngine.current_row
    answer_cells,   \* ExcelLayoutEngine.answer_cells, the registry
    final_sheet,    \* the Student sheet: <<row, col>> -> cell, for the cells
                    \* given a value; StudentSheet adds the white grid
    validations,    \* the Student sheet's data validations, in order of creation
    solution_sheet, \* the Solution sheet: <<row, col>> -> cell
    sheet_state,    \* the Solution sheet's sheet_state
    writes          \* history: <<row, col>> -> the layout steps that wrote the cell

vars == <<questions, pc, qi, phase, sub_idx, question_num, current_row,
          answer_cells, final_sheet, validations, solution_sheet,
          sheet_state, writes>>

-----------------------------------------------------------------------------
(* Bounds of the model. *)
MaxQuestions == 2
MaxSubs == 2

-----------------------------------------------------------------------------
(* Optional[T] *)
None == <<>>
Some(x) == <<x>>
Get(o) == o[1]

(* Python truthiness of an Optional[List] and of an Optional[float]. *)
TruthyList(o) == o # None /\ Len(Get(o)) > 0
TruthyFloat(o) == o # None /\ Get(o) # 0

-----------------------------------------------------------------------------
(* Text. *)
DigitChars == <<"0", "1", "2", "3", "4", "5", "6", "7", "8", "9">>
ColumnLetters == <<"A", "B", "C", "D", "E", "F", "G", "H", "I", "J", "K", "L",
                   "M", "N", "O", "P", "Q", "R", "S", "T", "U", "V", "W", "X",
                   "Y", "Z">>
LowerLetters == <<"a", "b", "c", "d", "e", "f", "g", "h", "i", "j", "k", "l",
                  "m", "n", "o", "p", "q", "r", "s", "t", "u", "v", "w", "x",
                  "y", "z">>

IsDigit(c) == \E i \in 1..10 : DigitChars[i] = c
DigitVal(c) == CHOOSE d \in 0..9 : DigitChars[d + 1] = c

(* str(n) of a non-negative int. *)
RECURSIVE Digits(_)
Digits(n) ==
    IF n < 10 THEN <<DigitChars[n + 1]>>
    ELSE Digits(n \div 10) \o <<DigitChars[(n % 10) + 1]>>

(* The number a run of decimal digits spells. *)
RECURSIVE ParseNat(_)
ParseNat(s) ==
    IF s = <<>> THEN 0
    ELSE ParseNat(SubSeq(s, 1, Len(s) - 1)) * 10 + DigitVal(s[Len(s)])

(* openpyxl.utils.get_column_letter, for the columns A..Z. *)
get_column_letter(col) == <<ColumnLetters[col]>>

(* f"{get_column_letter(col)}{row}" *)
CellAddress(col, row) == get_column_letter(col) \o Digits(row)

(* The <<row, col>> a one-letter A1 address names: what Excel resolves
   "=Student!D5" to. *)
ParseAddress(addr) ==
    <<ParseNat(SubSeq(addr, 2, Len(addr))),
      CHOOSE c \in 1..26 : ColumnLetters[c] = addr[1]>>

-----------------------------------------------------------------------------
(* Cell values: blank, a number (thousandths), a text, or an Excel error. *)
Blank == [t |-> "blank", n |-> 0, s |-> <<>>]
Num(n) == [t |-> "num", n |-> n, s |-> <<>>]
Text(s) == [t |-> "text", n |-> 0, s |-> s]
Err == [t |-> "err", n |-> 0, s |-> <<>>]

(* A Student-sheet cell: its value and the styling the code sets on it. *)
StyledCell(value, font, fill, border) ==
    [value |-> value, font |-> font, fill |-> fill, border |-> border]

(* sheet.cell(row, column, value) followed by the styling assignments. *)
WriteCell(sheet, row, col, cell) ==
    [p \in DOMAIN sheet \cup {<<row, col>>} |->
        IF p = <<row, col>> THEN cell ELSE sheet[p]]

(* Several cell writes at distinct positions, given as a function. *)
WriteCells(sheet, cells) ==
    [p \in DOMAIN sheet \cup DOMAIN cells |->
        IF p \in DOMAIN cells THEN cells[p] ELSE sheet[p]]

(* History of which step wrote which cell. *)
Logged(log, ps, tag) ==
    [p \in DOMAIN log \cup ps |->
        IF p \in ps
        THEN (IF p \in DOMAIN log THEN Append(log[p], tag) ELSE <<tag>>)
        ELSE log[p]]

-----------------------------------------------------------------------------
(* The question model (pydantic classes). *)
DataTable(headers, rows) == [headers |-> headers, rows |-> rows]

SubQuestion(part, answer, tolerance) ==
    [part |-> part, question |-> <<"s">>, answer |-> answer,
     tolerance |-> tolerance]

Question(type, answer, options, tolerance, data_table, subquestions) ==
    [type |-> type, question |-> <<"q">>, answer |-> answer,
     options |-> options, tolerance |-> tolerance,
     data_table |-> data_table, subquestions |-> subquestions]

IsComplex(q) == q.type = "data_table" \/ q.type = "multipart"

-----------------------------------------------------------------------------
(* Program constants. *)
InitialRow == 2
TextCol == 2
TableStartCol == 3
SubAnswerCol == 4
SimpleAnswerCol == 3
SolutionStartCol == 9
GradingStartRow == 2

-----------------------------------------------------------------------------
(* ExcelLayoutEngine.add_spacing: the cursor after `rows` blank rows. *)
add_spacing_back(row, rows) == row - rows

add_spacing(row, rows) == row + rows

(* f"{question_num}. {question_text}" and f"{sub_q.part}. {sub_q.question}" *)
Numbered(prefix, text) == prefix \o <<".", " ">> \o text

(* question_num += 1 at the end of the loop body. *)
NextQuestionNumStuck(n) == n

NextQuestionNum(n) == n + 1

(* Where the loop of build_professional_workbook goes next: a control point
   is [qi, phase, sub_idx, question_num]. *)
NextQuestionCtl ==
    [qi |-> qi + 1, phase |-> "question", sub_idx |-> 0,
     question_num |-> NextQuestionNum(question_num)]

SubsCtl(q) ==
    IF TruthyList(q.subquestions)
    THEN [qi |-> qi, phase |-> "subs", sub_idx |-> 1,
          question_num |-> question_num]
    ELSE NextQuestionCtl

TableCtl(q) ==
    IF q.data_table # None
    THEN [qi |-> qi, phase |-> "table", sub_idx |-> 0,
          question_num |-> question_num]
    ELSE SubsCtl(q)

AfterSubCtl(q) ==
    IF sub_idx < Len(Get(q.subquestions))
    THEN [qi |-> qi, phase |-> "subs", sub_idx |-> sub_idx + 1,
          question_num |-> question_num]
    ELSE NextQuestionCtl

Goto(c) ==
    /\ qi' = c.qi
    /\ phase' = c.phase
    /\ sub_idx' = c.sub_idx
    /\ question_num' = c.question_num

-----------------------------------------------------------------------------
(* ExcelLayoutEngine.add_question_header *)
HeaderCell(num, text) ==
    StyledCell(Text(Numbered(Digits(num), text)), "bold", "white", FALSE)

AddQuestionHeader ==
    /\ pc = "layout" /\ qi <= Len(questions) /\ phase = "question"
    /\ IsComplex(questions[qi])
    /\ LET q == questions[qi]
           r == add_spacing(current_row, 1)
       IN /\ final_sheet' = WriteCell(final_sheet, r, TextCol,
                                      HeaderCell(question_num, q.question))
          /\ writes' = Logged(writes, {<<r, TextCol>>}, <<"header", qi, 0>>)
          /\ current_row' = r + 1
          /\ Goto(TableCtl(q))
    /\ UNCHANGED <<questions, pc, answer_cells, validations, solution_sheet,
                   sheet_state>>

-----------------------------------------------------------------------------
(* ExcelLayoutEngine.add_data_table *)

(* enumerate(..., start=3): the column of the j-th value of a table row. *)
TableCol(j) == TableStartCol + (j - 1)

(* The cells of the table whose header row is row r0. *)
TablePositionsShort(t, r0) ==
    {<<r0, TableCol(j)>> : j \in 1..Len(t.headers)}
    \cup UNION {{<<r0 + i, TableCol(j)>> : j \in 1..Len(t.rows[i])} :
                i \in 1..(Len(t.rows) - 1)}

TablePositions(t, r0) ==
    {<<r0, TableCol(j)>> : j \in 1..Len(t.headers)}
    \cup UNION {{<<r0 + i, TableCol(j)>> : j \in 1..Len(t.rows[i])} :
                i \in 1..Len(t.rows)}

TableCells(t, r0) ==
    [p \in TablePositions(t, r0) |->
        IF p[1] = r0
        THEN StyledCell(Text(t.headers[p[2] - TableStartCol + 1]),
                        "bold", "header", TRUE)
        ELSE StyledCell(t.rows[p[1] - r0][p[2] - TableStartCol + 1],
                        "default", "table", TRUE)]

AddDataTable ==
    /\ pc = "layout" /\ qi <= Len(questions) /\ phase = "table"
    /\ LET q == questions[qi]
           t == Get(q.data_table)
           r0 == add_spacing(current_row, 1)
       IN /\ final_sheet' = WriteCells(final_sheet, TableCells(t, r0))
          /\ writes' = Logged(writes, TablePositions(t, r0), <<"table", qi, 0>>)
          /\ current_row' = add_spacing(r0 + 1 + Len(t.rows), 1)
          /\ Goto(SubsCtl(q))
    /\ UNCHANGED <<questions, pc, answer_cells, validations, solution_sheet,
                   sheet_state>>

-----------------------------------------------------------------------------
(* The styled, empty answer input cell (value="", border, answer_fill). *)
AnswerCell == StyledCell(Text(<<>>), "default", "answer", TRUE)

(* ExcelLayoutEngine.add_subquestion *)
SubAnswerRow(row) == row + 1

(* f"{get_column_letter(answer_col)}{self.current_row + 1}" *)
SubAnswerAddressOfText(row) == CellAddress(SubAnswerCol, row)

SubAnswerAddress(row) == CellAddress(SubAnswerCol, row + 1)

SubRecord(sub_q, num, row) ==
    [question_id |-> Digits(num) \o sub_q.part,
     cell_address |-> SubAnswerAddress(row),
     correct_answer |-> Some(sub_q.answer),
     tolerance |-> sub_q.tolerance,
     type |-> None]

AddSubquestion ==
    /\ pc = "layout" /\ qi <= Len(questions) /\ phase = "subs"
    /\ LET q == questions[qi]
           sub_q == Get(q.subquestions)[sub_idx]
           r == current_row
           a == SubAnswerRow(r)
       IN /\ final_sheet' =
                WriteCell(
                    WriteCell(final_sheet, r, TextCol,
                              StyledCell(Text(Numbered(sub_q.part, sub_q.question)),
                                         "question", "white", FALSE)),
                    a, SubAnswerCol, AnswerCell)
          /\ writes' = Logged(Logged(writes, {<<r, TextCol>>}, <<"sub", qi, sub_idx>>),
                              {<<a, SubAnswerCol>>}, <<"sub", qi, sub_idx>>)
          /\ answer_cells' = Append(answer_cells, SubRecord(sub_q, question_num, r))
          /\ current_row' = add_spacing(r + 2, 1)
          /\ Goto(AfterSubCtl(q))
    /\ UNCHANGED <<questions, pc, validations, solution_sheet, sheet_state>>

-----------------------------------------------------------------------------
(* ExcelLayoutEngine.add_simple_question *)

(* str(opt).replace('"', "'") *)
SafeOption(opt) ==
    [i \in 1..Len(opt) |-> IF opt[i] = "\"" THEN "'" ELSE opt[i]]

(* sep.join(parts) *)
RECURSIVE Join(_, _)
Join(parts, sep) ==
    IF parts = <<>> THEN <<>>
    ELSE IF Len(parts) = 1 THEN parts[1]
    ELSE parts[1] \o sep \o Join(Tail(parts), sep)

(* '"' + ','.join(safe_options) + '"' *)
OptionsFormula(options) ==
    <<"\"">> \o Join([i \in 1..Len(options) |-> SafeOption(options[i])], <<",">>)
    \o <<"\"">>

TrueFalseFormula ==
    <<"\"", "T", "r", "u", "e", ",", "F", "a", "l", "s", "e", "\"">>

(* The DataValidation objects the question adds for its answer cell. *)
QuestionValidations(q, addr) ==
    IF q.type \in {"dropdown", "multiplechoice"} /\ TruthyList(q.options)
    THEN <<[type |-> "list", formula1 |-> OptionsFormula(Get(q.options)),
            allow_blank |-> TRUE, cells |-> {addr}]>>
    ELSE IF q.type = "truefalse"
    THEN <<[type |-> "list", formula1 |-> TrueFalseFormula,
            allow_blank |-> TRUE, cells |-> {addr}]>>
    ELSE <<>>

SimpleRecord(q, num, row) ==
    [question_id |-> Digits(num),
     cell_address |-> CellAddress(SimpleAnswerCol, row),
     correct_answer |-> q.answer,
     tolerance |-> q.tolerance,
     type |-> Some(q.type)]

AddSimpleQuestion ==
    /\ pc = "layout" /\ qi <= Len(questions) /\ phase = "question"
    /\ ~IsComplex(questions[qi])
    /\ LET q == questions[qi]
           r == add_spacing(current_row, 1)
           a == r + 1
       IN /\ final_sheet' =
                WriteCell(
                    WriteCell(final_sheet, r, TextCol,
                              StyledCell(Text(Numbered(Digits(question_num), q.question)),
                                         "question", "white", FALSE)),
                    a, SimpleAnswerCol, AnswerCell)
          /\ writes' = Logged(Logged(writes, {<<r, TextCol>>}, <<"simple", qi, 0>>),
                              {<<a, SimpleAnswerCol>>}, <<"simple", qi, 0>>)
          /\ validations' =
                validations \o QuestionValidations(q, CellAddress(SimpleAnswerCol, a))
          /\ answer_cells' = Append(answer_cells, SimpleRecord(q, question_num, a))
          /\ current_row' = add_spacing(a + 1, 1)
          /\ Goto(NextQuestionCtl)
    /\ UNCHANGED <<questions, pc, solution_sheet, sheet_state>>

-----------------------------------------------------------------------------
(* ExcelLayoutEngine.setup_grading *)

(* A Solution-sheet cell: a text, an empty value (None), or one of the
   formulas the code builds as strings; `row` is the row whose J and K cells a
   grading formula names, `first`..`last` the rows of column L a SUM covers. *)
SolCell(kind) ==
    [kind |-> kind, text |-> <<>>, addr |-> <<>>, tol |-> 0, row |-> 0,
     first |-> 0, last |-> 0]

TextCell(s) == [SolCell("text") EXCEPT !.text = s]
EmptyCell == SolCell("empty")

(* value=correct_answer: a str, or None *)
LiteralCell(o) == IF o = None THEN EmptyCell ELSE TextCell(Get(o))

(* f"=Student!{cell_addr}" *)
ReferenceFormula(addr) == [SolCell("ref") EXCEPT !.addr = addr]

(* =IF(ABS(VALUE(K)-VALUE(J))<=({tolerance}*ABS(VALUE(K))),1,0) *)
ToleranceFormula(tol, row) == [SolCell("tolerance") EXCEPT !.tol = tol, !.row = row]

(* =IF(TEXT(J,"@")=TEXT(K,"@"),1,0) *)
ExactTextFormula(row) == [SolCell("exact") EXCEPT !.row = row]

(* =IF(ABS(VALUE(K)-VALUE(J))<=0.01,1,0) *)
AbsoluteFormula(row) == [SolCell("absolute") EXCEPT !.row = row]

(* f"=SUM(L2:L{grading_row})" *)
SumFormula(first, last) == [SolCell("sum") EXCEPT !.first = first, !.last = last]

(* answer_info.get('type', 'numerical') *)
RecordTypeNoDefault(info) == IF info.type = None THEN "None" ELSE Get(info.type)

RecordType(info) == IF info.type = None THEN "numerical" ELSE Get(info.type)

(* The if / elif / else that picks the grading formula of a record. *)
GradingFormula(info, grading_row) ==
    IF TruthyFloat(info.tolerance) /\ RecordType(info) = "numerical"
    THEN ToleranceFormula(Get(info.tolerance), grading_row)
    ELSE IF RecordType(info) \in {"truefalse", "multiplechoice", "dropdown"}
    THEN ExactTextFormula(grading_row)
    ELSE AbsoluteFormula(grading_row)

(* The Solution row of the i-th record: grading_row starts at 2 and is
   incremented once per record. *)
GradingRowShared(i) == GradingStartRow

GradingRow(i) == GradingStartRow + (i - 1)

(* The four cells of the i-th record's row (columns I, J, K, L). *)
GradingCells(cells) ==
    [p \in {<<GradingRow(i), SolutionStartCol + k>> :
               i \in 1..Len(cells), k \in 0..3} |->
        LET i == CHOOSE j \in 1..Len(cells) : GradingRow(j) = p[1]
            info == cells[i]
            k == p[2] - SolutionStartCol
        IN CASE k = 0 -> TextCell(info.question_id)
             [] k = 1 -> ReferenceFormula(info.cell_address)
             [] k = 2 -> LiteralCell(info.correct_answer)
             [] k = 3 -> GradingFormula(info, p[1])]

TotalLabel == <<"T", "o", "t", "a", "l", " ", "S", "c", "o", "r", "e", ":">>

(* The "Total Score:" row, written only when there is a record; grading_row
   is the loop's final value, one past the last grading row. *)
TotalCells(cells) ==
    LET grading_row == GradingStartRow + Len(cells)
    IN IF cells = <<>> THEN <<>>
       ELSE [p \in {<<grading_row + 1, 11>>, <<grading_row + 1, 12>>} |->
                IF p[2] = 11 THEN TextCell(TotalLabel)
                ELSE SumFormula(2, grading_row)]

(* layout.setup_grading(), then the sheet is hidden and the workbook saved. *)
SetupGrading ==
    /\ pc = "layout" /\ qi > Len(questions)
    /\ solution_sheet' =
          WriteCells(WriteCells(solution_sheet, GradingCells(answer_cells)),
                     TotalCells(answer_cells))
    /\ sheet_state' = "hidden"
    /\ pc' = "done"
    /\ UNCHANGED <<questions, qi, phase, sub_idx, question_num, current_row,
                   answer_cells, final_sheet, validations, writes>>

-----------------------------------------------------------------------------
(* ExcelLayoutEngine.__init__, setup_sheets and the title assignment. *)

(* The value setup_sheets gives B1; build_professional_workbook replaces it. *)
PlaceholderTitle == <<"E", "x", "a", "m">>

(* The default of build_professional_workbook's exam_title argument. *)
ExamTitle ==
    <<"P", "r", "o", "f", "e", "s", "s", "i", "o", "n", "a", "l", " ",
      "E", "x", "a", "m">>

(* The titles a caller passes: the default and a custom one. *)
ExamTitles == {ExamTitle, <<"M", "i", "d", "t", "e", "r", "m", " ", "2">>}

TitleCell(title) == StyledCell(Text(title), "title", "white", FALSE)

(* range(1, 100) x range(1, 20): the cells setup_sheets creates with a white
   fill and no value. *)
GridRows == 99
GridCols == 19
GridPositions == (1..GridRows) \X (1..GridCols)
WhiteCell == StyledCell(Blank, "default", "white", FALSE)

SolutionHeaders ==
    <<<<"Q", "u", "e", "s", "t", "i", "o", "n">>,
      <<"S", "t", "u", "d", "e", "n", "t">>,
      <<"S", "o", "l", "u", "t", "i", "o", "n">>,
      <<"P", "o", "i", "n", "t", "s">>>>

InitEngine(qs, exam_title) ==
    /\ questions = qs
    /\ pc = "layout"
    /\ qi = 1
    /\ phase = "question"
    /\ sub_idx = 0
    /\ question_num = 1
    /\ current_row = InitialRow
    /\ answer_cells = <<>>
    /\ final_sheet =
          WriteCell(WriteCell(<<>>, 1, TextCol, TitleCell(PlaceholderTitle)),
                    1, TextCol, TitleCell(exam_title))
    /\ validations = <<>>
    /\ solution_sheet = [p \in {<<1, SolutionStartCol + k>> : k \in 0..3} |->
                            TextCell(SolutionHeaders[p[2] - SolutionStartCol + 1])]
    /\ sheet_state = "visible"
    /\ writes = <<>>

(* A cell of the Student sheet as the workbook holds it: the cell as written,
   or the white, empty cell of the grid. *)
StudentCell(p) == IF p \in DOMAIN final_sheet THEN final_sheet[p] ELSE WhiteCell

(* The whole Student sheet. *)
StudentSheet ==
    [p \in GridPositions \cup DOMAIN final_sheet |-> StudentCell(p)]

-----------------------------------------------------------------------------
(* The question lists the layout is checked on. *)
Hundred == <<"1", "0", "0">>

(* n sub-questions, labelled A, B, C, ... *)
SubList(n) ==
    [i \in 1..n |-> SubQuestion(<<ColumnLetters[i]>>, Hundred, None)]

SubLists == {None} \cup {Some(SubList(n)) : n \in 0..MaxSubs}

(* A table of n headers whose i-th row holds lens[i] values. *)
MakeTable(n, lens) ==
    DataTable([j \in 1..n |-> <<"h", DigitChars[j + 1]>>],
              [i \in 1..Len(lens) |-> [j \in 1..lens[i] |-> Num(1000 * (10 * i + j))]])

DataTables ==
    {None, Some(MakeTable(2, <<2, 2>>)), Some(MakeTable(2, <<2, 1>>)),
     Some(MakeTable(1, <<3>>)), Some(MakeTable(0, <<>>))}

OptionLists ==
    {None, Some(<<>>), Some(<<<<"a">>, <<"b">>>>),
     Some(<<<<"a", ",", "b">>, <<"c">>>>), Some(<<<<"a", "\"", "b">>>>)}

ComplexQuestions ==
    {Question("data_table", None, None, None, t, s) :
        t \in DataTables, s \in SubLists}
    \cup {Question("multipart", Some(Hundred), None, None, t, Some(SubList(1))) :
            t \in {None, Some(MakeTable(2, <<2, 2>>))}}
    \cup {Question("multipart", Some(Hundred), None, None, None, None)}

SimpleQuestions ==
    {Question("numerical", Some(Hundred), None, None, None, None),
     Question("numerical", Some(Hundred), None, Some(20),
              Some(MakeTable(2, <<2, 2>>)), Some(SubList(1))),
     Question("numerical", Some(Hundred), None, Some(0), None, None),
     Question("essay", None, None, None, None, None),
     Question("truefalse", Some(<<"T", "r", "u", "e">>), None, None, None, None),
     Question("dropdown", Some(<<"a">>), Some(<<<<"a">>, <<"b">>>>), None, None, None)}
    \cup {Question("multiplechoice", Some(<<"a">>), o, None, None, None) :
            o \in OptionLists}

Questions == ComplexQuestions \cup SimpleQuestions

(* Every list of 0..n elements of S. *)
ListsUpTo(S, n) == UNION {[1..k -> S] : k \in 0..n}

Init == \E qs \in ListsUpTo(Questions, MaxQuestions) : InitEngine(qs, ExamTitle)

Next ==
    \/ AddQuestionHeader
    \/ AddDataTable
    \/ AddSubquestion
    \/ AddSimpleQuestion
    \/ SetupGrading

Spec == Init /\ [][Next]_vars

-----------------------------------------------------------------------------
(* Helpers of the properties. *)
Range(f) == {f[x] : x \in DOMAIN f}

(* The Student-sheet position a record's cell_address names. *)
RecordCell(info) == ParseAddress(info.cell_address)

(* The cells a given layout step wrote. *)
WrittenBy(tag) == {p \in DOMAIN writes : tag \in Range(writes[p])}

(* The Solution rows whose column J holds the reference formula to addr. *)
ReferenceRows(addr) ==
    {p \in DOMAIN solution_sheet :
        /\ p[2] = SolutionStartCol + 1
        /\ solution_sheet[p] = ReferenceFormula(addr)}

(* The answer-bearing fields of a question, as the question_ids the spec
   gives them: the sequence number, followed by the part for a sub-question. *)
ExpectedIds(q, k) ==
    IF IsComplex(q)
    THEN IF q.subquestions = None THEN <<>>
         ELSE [i \in 1..Len(Get(q.subquestions)) |->
                  Digits(k) \o Get(q.subquestions)[i].part]
    ELSE <<Digits(k)>>

RECURSIVE ExpectedRegistry(_, _)
ExpectedRegistry(qs, k) ==
    IF k = 0 THEN <<>>
    ELSE ExpectedRegistry(qs, k - 1) \o ExpectedIds(qs[k], k)

RegistryIds == [i \in 1..Len(answer_cells) |-> answer_cells[i].question_id]

-----------------------------------------------------------------------------
(* C1: once the build has finished, every AnswerRecord's cell_address names a
   Student cell that was written as the empty, answer-filled input cell and
   written only once, and exactly one Solution row references it in column J;
   no two records share an address. *)
C1_AnswerCellsAreInputs ==
    pc = "done" =>
        /\ \A i \in 1..Len(answer_cells) :
              LET info == answer_cells[i]
                  p == RecordCell(info)
              IN /\ p \in DOMAIN final_sheet
                 /\ final_sheet[p] = AnswerCell
                 /\ p \in DOMAIN writes /\ Len(writes[p]) = 1
                 /\ Cardinality(ReferenceRows(info.cell_address)) = 1
        /\ \A i, j \in 1..Len(answer_cells) :
              i # j => answer_cells[i].cell_address # answer_cells[j].cell_address

C1_Witness ==
    /\ pc = "done"
    /\ \E i, j \in 1..Len(answer_cells) :
          answer_cells[i].type = None /\ answer_cells[j].type # None

(* C2: the registry holds exactly the answer-bearing fields of the questions
   processed, identified by sequence number and part, in order; and no step
   changes or removes a record once appended. *)
C2_RegistryExact ==
    /\ [](pc = "done" => RegistryIds = ExpectedRegistry(questions, Len(questions)))
    /\ [][/\ Len(answer_cells') >= Len(answer_cells)
          /\ SubSeq(answer_cells', 1, Len(answer_cells)) = answer_cells]_vars

C2_Witness ==
    /\ pc = "done"
    /\ Len(questions) = 2
    /\ IsComplex(questions[1]) /\ ~IsComplex(questions[2])
    /\ Len(answer_cells) = 3

(* C3: at every point the registry is in the order of the Student rows,
   strictly increasing; and once graded, the i-th record is graded on
   Solution row i+1. *)
C3_RegistryOrder ==
    /\ \A i, j \in 1..Len(answer_cells) :
          i < j => RecordCell(answer_cells[i])[1] < RecordCell(answer_cells[j])[1]
    /\ pc = "done" =>
          \A i \in 1..Len(answer_cells) :
              LET info == answer_cells[i]
                  at(k) == solution_sheet[<<i + 1, SolutionStartCol + k>>]
              IN /\ \A k \in 0..3 : <<i + 1, SolutionStartCol + k>> \in DOMAIN solution_sheet
                 /\ at(0) = TextCell(info.question_id)
                 /\ at(1) = ReferenceFormula(info.cell_address)
                 /\ at(2) = LiteralCell(info.correct_answer)
                 /\ at(3).row = i + 1
                 /\ at(3).kind \in {"tolerance", "exact", "absolute"}

C3_Witness ==
    /\ pc = "done"
    /\ Len(answer_cells) = 3
    /\ answer_cells[1].type # None /\ answer_cells[2].type = None

-----------------------------------------------------------------------------
(* The grading formula the spec's priority list selects for a record: the
   relative-tolerance formula when a tolerance is present (not None) and the
   type is numerical, else the exact-text formula for the choice types, else
   the absolute-threshold formula. *)
SpecifiedFormulaKind(info) ==
    IF info.tolerance # None /\ RecordType(info) = "numerical" THEN "tolerance"
    ELSE IF RecordType(info) \in {"truefalse", "multiplechoice", "dropdown"}
    THEN "exact"
    ELSE "absolute"

(* The grading formula of the i-th record, in column L of its row. *)
PointsCell(i) == solution_sheet[<<GradingRow(i), SolutionStartCol + 3>>]

(* C4: setup_grading selects every record's formula by the stated priority,
   for every tolerance value that is not absent. *)
C4_FormulaSelection ==
    pc = "done" =>
        \A i \in 1..Len(answer_cells) :
            PointsCell(i).kind = SpecifiedFormulaKind(answer_cells[i])

-----------------------------------------------------------------------------
(* The table of the k-th question has been rendered. *)
TableRendered(k) ==
    /\ k \in 1..Len(questions)
    /\ IsComplex(questions[k])
    /\ questions[k].data_table # None
    /\ (qi > k \/ (qi = k /\ phase = "subs"))

(* The row of the table's header: the question header is written one row
   above a blank spacing row, which is one row above the table. *)
TableTop(k) ==
    (CHOOSE p \in WrittenBy(<<"header", k, 0>>) : TRUE)[1] + 2

(* The formatted, populated cells the table of question k has in row r. *)
TableCellsInRow(k, r) ==
    {p \in WrittenBy(<<"table", k, 0>>) :
        /\ p[1] = r
        /\ final_sheet[p].border
        /\ final_sheet[p].fill \in {"header", "table"}
        /\ final_sheet[p].value.t # "blank"}

(* The records appended so far, counted from the questions: one per simple
   question done, one per sub-question done. *)
RECURSIVE RecordsOfFirst(_)
RecordsOfFirst(k) ==
    IF k = 0 THEN 0
    ELSE RecordsOfFirst(k - 1) + Len(ExpectedIds(questions[k], k))

RecordsExpected ==
    RecordsOfFirst(qi - 1) + (IF phase = "subs" THEN sub_idx - 1 ELSE 0)

(* C8 as stated: a table of N headers and M data rows occupies M+1
   consecutive rows with N populated columns in each, and appends no record. *)
C8_TableRowsAllN ==
    /\ \A k \in 1..Len(questions) :
          TableRendered(k) =>
              LET t == Get(questions[k].data_table)
                  r0 == TableTop(k)
              IN /\ \A r \in r0..(r0 + Len(t.rows)) :
                      Cardinality(TableCellsInRow(k, r)) = Len(t.headers)
                 /\ \A p \in WrittenBy(<<"table", k, 0>>) :
                      p[1] \in r0..(r0 + Len(t.rows))
    /\ Len(answer_cells) = RecordsExpected

(* C8 amended: the header row has N populated columns and the i-th data row
   as many as the row has values; the M+1 rows are consecutive; the table
   appends no record, the sub-questions alone do. *)
C8_TableRowsByLength ==
    /\ \A k \in 1..Len(questions) :
          TableRendered(k) =>
              LET t == Get(questions[k].data_table)
                  r0 == TableTop(k)
              IN /\ Cardinality(TableCellsInRow(k, r0)) = Len(t.headers)
                 /\ \A i \in 1..Len(t.rows) :
                      Cardinality(TableCellsInRow(k, r0 + i)) = Len(t.rows[i])
                 /\ \A p \in WrittenBy(<<"table", k, 0>>) :
                      p[1] \in r0..(r0 + Len(t.rows))
    /\ Len(answer_cells) = RecordsExpected

C8_Witness ==
    /\ TableRendered(1)
    /\ qi = 1 /\ phase = "subs" /\ sub_idx = 1
    /\ questions[1].type = "multipart" /\ questions[1].answer # None
    /\ Get(questions[1].data_table) = MakeTable(2, <<2, 2>>)
    /\ Cardinality(WrittenBy(<<"table", 1, 0>>)) = 6
    /\ answer_cells = <<>>

-----------------------------------------------------------------------------
(* How Excel reads the formula1 of a list validation given as a quoted
   literal: the text between the quotes, split at the commas. *)
RECURSIVE Split(_, _)
Split(s, sep) ==
    IF \A i \in 1..Len(s) : s[i] # sep THEN <<s>>
    ELSE LET i == CHOOSE j \in 1..Len(s) :
                     s[j] = sep /\ \A m \in 1..(j - 1) : s[m] # sep
         IN <<SubSeq(s, 1, i - 1)>> \o Split(SubSeq(s, i + 1, Len(s)), sep)

ListValues(formula1) == Split(SubSeq(formula1, 2, Len(formula1) - 1), ",")

(* The validations attached to the cell at addr. *)
ValidationsOf(addr) ==
    {i \in 1..Len(validations) : addr \in validations[i].cells}

(* C9: the answer cell of a truefalse, multiplechoice or dropdown question
   carries one list validation whose values are True, False for truefalse and
   the question's options, in number and order (double quotes replaced),
   for the other two; answer cells of other types carry none.  The claim is
   stated here for the questions that do have options: a choice question
   without any is left aside. *)
C9_ChoiceValidation ==
    \A i \in 1..Len(answer_cells) :
        answer_cells[i].type # None =>
            LET info == answer_cells[i]
                q == questions[ParseNat(info.question_id)]
                vs == ValidationsOf(info.cell_address)
                v == validations[CHOOSE n \in vs : TRUE]
            IN IF q.type = "truefalse"
               THEN /\ Cardinality(vs) = 1
                    /\ v.type = "list"
                    /\ ListValues(v.formula1) =
                          <<<<"T", "r", "u", "e">>, <<"F", "a", "l", "s", "e">>>>
               ELSE IF q.type \in {"multiplechoice", "dropdown"}
               THEN TruthyList(q.options) =>
                       /\ Cardinality(vs) = 1
                       /\ v.type = "list"
                       /\ ListValues(v.formula1) =
                             [n \in 1..Len(Get(q.options)) |->
                                 SafeOption(Get(q.options)[n])]
               ELSE vs = {}

-----------------------------------------------------------------------------
(* The cells a step writes: those whose history grows. *)
WrittenInStep ==
    {p \in DOMAIN writes' :
        IF p \in DOMAIN writes THEN Len(writes'[p]) > Len(writes[p]) ELSE TRUE}

(* C10: the row cursor never decreases; a step writes only rows from the
   cursor it starts with up to, and not including, the cursor it ends with;
   no cell is written twice and no row is shared by two steps; the first
   question is written on the row after the cursor's initial value, below the
   title row. *)
C10_CursorForward ==
    /\ [](/\ \A p \in DOMAIN writes : Len(writes[p]) = 1
          /\ \A p1, p2 \in DOMAIN writes : p1[1] = p2[1] => writes[p1] = writes[p2]
          /\ \A p \in DOMAIN writes : p[1] > 1
          /\ (questions # <<>> /\ (qi > 1 \/ phase # "question")) =>
                \/ <<InitialRow + 1, TextCol>> \in WrittenBy(<<"header", 1, 0>>)
                \/ <<InitialRow + 1, TextCol>> \in WrittenBy(<<"simple", 1, 0>>))
    /\ [][/\ current_row' >= current_row
          /\ \A p \in WrittenInStep : current_row <= p[1] /\ p[1] < current_row']_vars

C10_Witness ==
    /\ pc = "done"
    /\ Len(questions) = 2
    /\ \E p \in WrittenBy(<<"table", 1, 0>>) : TRUE
    /\ \E p \in WrittenBy(<<"sub", 1, 2>>) : TRUE
    /\ \E p \in WrittenBy(<<"simple", 2, 0>>) : TRUE

-----------------------------------------------------------------------------
(* The saved workbook in use: a student types into an answer cell (the
   Student sheet is left unprotected and the validations do not reject input),
   and Excel evaluates the Solution sheet's formulas. *)
TrueText == <<"T", "r", "u", "e">>

StudentValues ==
    {Num(98000), Num(102000), Num(97900), Num(102100), Num(100005),
     Num(50009), Num(50020), Text(TrueText), Text(<<"t", "r", "u", "e">>),
     Text(<<"a", "b", "c">>)}

StudentEnter ==
    /\ pc = "done"
    /\ \E i \in 1..Len(answer_cells), v \in StudentValues :
          LET p == RecordCell(answer_cells[i])
          IN /\ final_sheet[p].value # v
             /\ final_sheet' = [final_sheet EXCEPT ![p].value = v]
    /\ UNCHANGED <<questions, pc, qi, phase, sub_idx, question_num, current_row,
                   answer_cells, validations, solution_sheet, sheet_state,
                   writes>>

(* What a cell of the Student sheet holds for Excel: a cell never written,
   or written with value="", is empty. *)
StudentValue(p) ==
    IF StudentCell(p).value = Text(<<>>) THEN Blank
    ELSE StudentCell(p).value

Abs(x) == IF x < 0 THEN -x ELSE x

(* A text Excel's VALUE reads as a plain decimal number: an optional minus
   sign, digits, at most one decimal point. *)
Unsigned(s) == IF s # <<>> /\ s[1] = "-" THEN Tail(s) ELSE s

IsDecimal(s) ==
    LET u == Unsigned(s)
    IN /\ \A i \in 1..Len(u) : IsDigit(u[i]) \/ u[i] = "."
       /\ \E i \in 1..Len(u) : IsDigit(u[i])
       /\ Cardinality({i \in 1..Len(u) : u[i] = "."}) <= 1

(* Its value, in thousandths (digits past the third decimal are dropped). *)
ParseDecimal(s) ==
    LET u == Unsigned(s)
        dots == {i \in 1..Len(u) : u[i] = "."}
        dot == IF dots = {} THEN Len(u) + 1 ELSE CHOOSE i \in dots : TRUE
        whole == ParseNat(SubSeq(u, 1, dot - 1))
        frac == SubSeq(SubSeq(u, dot + 1, Len(u)) \o <<"0", "0", "0">>, 1, 3)
        mag == whole * 1000 + ParseNat(frac)
    IN IF s # <<>> /\ s[1] = "-" THEN -mag ELSE mag

(* The General-format text of a number given in thousandths. *)
RECURSIVE StripZeros(_)
StripZeros(s) ==
    IF s # <<>> /\ s[Len(s)] = "0" THEN StripZeros(SubSeq(s, 1, Len(s) - 1)) ELSE s

FormatDecimal(n) ==
    LET m == Abs(n)
        f == m % 1000
        frac == StripZeros(<<DigitChars[(f \div 100) + 1],
                             DigitChars[((f \div 10) % 10) + 1],
                             DigitChars[(f % 10) + 1]>>)
    IN (IF n < 0 THEN <<"-">> ELSE <<>>) \o Digits(m \div 1000)
       \o (IF frac = <<>> THEN <<>> ELSE <<".">> \o frac)

(* Excel's VALUE(x). *)
VALUE(v) ==
    CASE v.t = "num" -> v
      [] v.t = "blank" -> Num(0)
      [] v.t = "text" -> IF IsDecimal(v.s) THEN Num(ParseDecimal(v.s)) ELSE Err
      [] OTHER -> Err

(* Excel's TEXT(x, "@"). *)
TEXT(v) ==
    CASE v.t = "text" -> v
      [] v.t = "num" -> Text(FormatDecimal(v.n))
      [] v.t = "blank" -> Text(<<>>)
      [] OTHER -> Err

(* Excel's = on two texts ignores case. *)
UpperChar(c) ==
    IF \E i \in 1..26 : LowerLetters[i] = c
    THEN ColumnLetters[CHOOSE i \in 1..26 : LowerLetters[i] = c]
    ELSE c

Upper(s) == [i \in 1..Len(s) |-> UpperChar(s[i])]

TextEquals(a, b) == Upper(a) = Upper(b)

(* The value of a Solution cell that holds no grading formula: a text, an
   empty cell, or the reference =Student!addr, which shows 0 for an empty
   cell. *)
InputValue(p) ==
    IF p \notin DOMAIN solution_sheet THEN Blank
    ELSE LET c == solution_sheet[p]
         IN CASE c.kind = "text" -> Text(c.text)
              [] c.kind = "ref" ->
                    (LET v == StudentValue(ParseAddress(c.addr))
                     IN IF v.t = "blank" THEN Num(0) ELSE v)
              [] OTHER -> Blank

(* The value of a grading formula of column L. *)
PointsValue(c) ==
    LET j == InputValue(<<c.row, SolutionStartCol + 1>>)
        k == InputValue(<<c.row, SolutionStartCol + 2>>)
    IN CASE c.kind = "tolerance" ->
              (IF VALUE(k).t = "err" \/ VALUE(j).t = "err" THEN Err
               ELSE IF Abs(VALUE(k).n - VALUE(j).n) * 1000 <= c.tol * Abs(VALUE(k).n)
               THEN Num(1000) ELSE Num(0))
         [] c.kind = "absolute" ->
              (IF VALUE(k).t = "err" \/ VALUE(j).t = "err" THEN Err
               ELSE IF Abs(VALUE(k).n - VALUE(j).n) <= 10
               THEN Num(1000) ELSE Num(0))
         [] c.kind = "exact" ->
              (IF TEXT(k).t = "err" \/ TEXT(j).t = "err" THEN Err
               ELSE IF TextEquals(TEXT(j).s, TEXT(k).s)
               THEN Num(1000) ELSE Num(0))
         [] OTHER -> Blank

(* The value of any cell of column L. *)
ColumnLValue(r) ==
    IF <<r, SolutionStartCol + 3>> \in DOMAIN solution_sheet
    THEN PointsValue(solution_sheet[<<r, SolutionStartCol + 3>>])
    ELSE Blank

(* Excel's SUM over L{first}:L{last}: an error in the range is the result;
   empty cells and texts count for nothing. *)
RECURSIVE SumRows(_, _)
SumRows(first, last) ==
    IF last < first THEN 0
    ELSE SumRows(first, last - 1)
         + (IF ColumnLValue(last).t = "num" THEN ColumnLValue(last).n ELSE 0)

SumValue(c) ==
    IF \E r \in c.first..c.last : ColumnLValue(r).t = "err" THEN Err
    ELSE Num(SumRows(c.first, c.last))

-----------------------------------------------------------------------------
(* The question lists the grading is checked on. *)
GradedQuestions ==
    {Question("numerical", Some(Hundred), None, None, None, None),
     Question("numerical", Some(Hundred), None, Some(0), None, None),
     Question("numerical", Some(Hundred), None, Some(20), None, None),
     Question("numerical", Some(<<"-", "1", "0", "0">>), None, Some(20), None, None),
     Question("numerical", Some(<<"5", "0", ".", "0", "0">>), None, None, None, None),
     Question("numerical", Some(<<"a", "b", "c">>), None, None, None, None),
     Question("numerical", None, None, None, None, None),
     Question("truefalse", Some(TrueText), None, None, None, None),
     Question("multiplechoice", Some(<<"a">>), Some(<<<<"a">>, <<"b">>>>), Some(20),
              None, None),
     Question("data_table", None, None, None, Some(MakeTable(1, <<1>>)),
              Some(<<SubQuestion(<<"A">>, Hundred, Some(20))>>))}

InitStudent ==
    \E qs \in ListsUpTo(GradedQuestions, MaxQuestions) : InitEngine(qs, ExamTitle)

NextStudent == Next \/ StudentEnter

SpecStudent == InitStudent /\ [][NextStudent]_vars

-----------------------------------------------------------------------------
(* What the student typed into the i-th record's answer cell. *)
StudentAnswer(i) == StudentValue(RecordCell(answer_cells[i]))

(* The points Excel shows for the i-th record. *)
Points(i) == PointsValue(PointsCell(i))

(* C5: for a record of type truefalse, multiplechoice or dropdown, the
   correctness formula gives 1 exactly when the student's text and the correct
   answer are the same text, case included, and 0 otherwise. *)
C5_ExactTextCaseSensitive ==
    pc = "done" =>
        \A i \in 1..Len(answer_cells) :
            (/\ RecordType(answer_cells[i]) \in {"truefalse", "multiplechoice", "dropdown"}
             /\ answer_cells[i].correct_answer # None
             /\ StudentAnswer(i).t = "text")
            => Points(i) = IF StudentAnswer(i).s = Get(answer_cells[i].correct_answer)
                           THEN Num(1000) ELSE Num(0)

(* C6: for a numerical record with a tolerance t and a numeric correct answer
   c, the correctness formula gives 1 exactly when |c - s| <= t * |c| for the
   student's number s, and 0 otherwise. *)
C6_RelativeTolerance ==
    pc = "done" =>
        \A i \in 1..Len(answer_cells) :
            LET info == answer_cells[i]
            IN (/\ RecordType(info) = "numerical"
                /\ info.tolerance # None
                /\ info.correct_answer # None
                /\ IsDecimal(Get(info.correct_answer))
                /\ StudentAnswer(i).t = "num")
               => LET c == ParseDecimal(Get(info.correct_answer))
                      n == StudentAnswer(i).n
                      t == Get(info.tolerance)
                  IN Points(i) = IF Abs(c - n) * 1000 <= t * Abs(c)
                                 THEN Num(1000) ELSE Num(0)

(* C7: whatever the students' cells hold, every correctness cell shows 0 or
   1, and the total, placed below the last grading row, shows the number of
   correctness cells that show 1; its SUM range covers every grading row and
   not the total's own row. *)
C7_TotalCountsOnes ==
    pc = "done" =>
        /\ \A i \in 1..Len(answer_cells) : Points(i) \in {Num(0), Num(1000)}
        /\ answer_cells # <<>> =>
              \E r \in (GradingRow(Len(answer_cells)) + 1)..(GradingRow(Len(answer_cells)) + 3) :
                 LET p == <<r, SolutionStartCol + 3>>
                     total == solution_sheet[p]
                 IN /\ p \in DOMAIN solution_sheet
                    /\ total.kind = "sum"
                    /\ \A i \in 1..Len(answer_cells) :
                          GradingRow(i) \in total.first..total.last
                    /\ r \notin total.first..total.last
                    /\ SumValue(total) =
                          Num(1000 * Cardinality({i \in 1..Len(answer_cells) :
                                                     Points(i) = Num(1000)}))

-----------------------------------------------------------------------------
(* The question lists the grading of sub-questions is checked on: one
   data_table or multipart question, alone or after a truefalse question,
   whose sub-questions take every combination of a tolerance (absent, 0.0,
   0.02) and an answer text (a number, the text True). *)
SubVariants ==
    {SubQuestion(<<"A">>, a, t) :
        a \in {Hundred, TrueText}, t \in {None, Some(0), Some(20)}}

SubVariantLists == UNION {[1..n -> SubVariants] : n \in 1..MaxSubs}

SubParents ==
    {Question("data_table", None, None, None, Some(MakeTable(1, <<1>>)), Some(l)) :
        l \in SubVariantLists}
    \cup {Question("multipart", Some(TrueText), Some(<<TrueText>>), Some(20), None, Some(l)) :
            l \in SubVariantLists}

InitSubs ==
    \E c \in SubParents, title \in ExamTitles :
        \/ InitEngine(<<c>>, title)
        \/ InitEngine(<<Question("truefalse", Some(TrueText), None, Some(20), None, None), c>>,
                      title)

SpecSubs == InitSubs /\ [][Next]_vars

(* The registry positions of the records sub-questions appended. *)
SubRecords == {i \in 1..Len(answer_cells) : answer_cells[i].type = None}

(* The sub-questions of the question list. *)
RECURSIVE SubCount(_)
SubCount(k) ==
    IF k = 0 THEN 0
    ELSE SubCount(k - 1)
         + (IF IsComplex(questions[k]) /\ questions[k].subquestions # None
            THEN Len(Get(questions[k].subquestions)) ELSE 0)

(* C11: the record of every sub-question carries no type, and setup_grading
   grades it as numerical: the relative-tolerance formula, with the record's
   tolerance, when the tolerance is present and not zero, the absolute 0.01
   formula otherwise, and never the exact-text formula, whatever the answer
   text and the parent's type. *)
C11_SubquestionsNumerical ==
    pc = "done" =>
        /\ Cardinality(SubRecords) = SubCount(Len(questions))
        /\ \A i \in SubRecords :
              LET info == answer_cells[i]
                  f == PointsCell(i)
              IN /\ f.kind # "exact"
                 /\ f.row = i + 1
                 /\ IF info.tolerance # None /\ Get(info.tolerance) # 0
                    THEN f.kind = "tolerance" /\ f.tol = Get(info.tolerance)
                    ELSE f.kind = "absolute"

C11_Witness ==
    /\ pc = "done"
    /\ questions[Len(questions)].type = "multipart"
    /\ \E i, j \in SubRecords :
          /\ answer_cells[i].correct_answer = Some(TrueText)
          /\ answer_cells[i].tolerance = Some(20)
          /\ PointsCell(i).kind = "tolerance"
          /\ answer_cells[j].tolerance = Some(0)
          /\ PointsCell(j).kind = "absolute"
    /\ \E i \in 1..Len(answer_cells) :
          answer_cells[i].type # None /\ PointsCell(i).kind = "exact"

====
